---- MODULE Spec2Model ----
(***************************************************************************)
(* Phase windows, the coverage statistic, the two Monte Carlo baselines    *)
(* and the ratio scan of vfd-lifespan-neuroscience-phases.                 *)
(*                                                                         *)
(* Reals (years, ratios, coverages) are fixed-point integers in units of   *)
(* 1/SCALE: 6.0 years is 6000, the ratio 1.5 is 1500, the coverage 0.8 is  *)
(* 800.  Products and quotients truncate to that unit, where the source    *)
(* rounds to a float64.                                                    *)
(***************************************************************************)
EXTENDS Integers, Sequences, FiniteSets

VARIABLES
    pc,         \* where the caller or the running function stands
    args,       \* the arguments of the call in progress (or last made)
    ages,       \* the ages being scored
    windows,    \* the window sequence last built or handed over
    result,     \* what coverage_for_ages last returned
    prev,       \* an earlier result kept by the caller (SpecCov, SpecMC);
                \* best_idx, best_r, best_coverage of the scan (SpecScan)
    rng,        \* the pseudorandom stream of a baseline call
    i,          \* the loop index of a baseline or of the scan
    coverages,  \* the coverage vector being filled
    ratios,     \* the ratios of the scan
    draws,      \* the batch a trial drew, with its stream positions
    empirical   \* the ages in the data file load_empirical_ages() reads

vars == <<pc, args, ages, windows, result, prev, rng, i, coverages, ratios, draws,
          empirical>>

\* ---------------------------------------------------------------------
\* Fixed-point arithmetic
\* ---------------------------------------------------------------------

SCALE == 1000

Mul(a, b) == (a * b) \div SCALE

RECURSIVE Pow(_, _)
\* x ** k for an integer-valued exponent k >= 0
Pow(x, k) == IF k <= 0 THEN SCALE ELSE Mul(Pow(x, k - 1), x)

\* ---------------------------------------------------------------------
\* Constants (windows_and_coverage.py)
\* ---------------------------------------------------------------------

PHI == 1618
ANCHOR_A == 6000
NUM_PHASES == 5
W0 == 3000
G == 1500
MAX_AGE == 90000

\* assigned_windows[i] when no window contains ages[i]
None == 0

\* ---------------------------------------------------------------------
\* PhaseWindow
\* ---------------------------------------------------------------------

PhaseWindow(index, centre, lower, upper, half_width) ==
    [index |-> index, centre |-> centre, lower |-> lower, upper |-> upper,
     half_width |-> half_width]

\* the interval read without its endpoints
containsHalfOpen(w, age) == w.lower < age /\ age < w.upper

\* return self.lower <= age <= self.upper
contains(w, age) == w.lower <= age /\ age <= w.upper

\* ---------------------------------------------------------------------
\* Window builders
\* ---------------------------------------------------------------------

\* the centres with the exponent running from 0, as the half-widths do
centres_from_exponent_zero(A, phi, K) ==
    IF K < 1 THEN <<>> ELSE [k \in 1..K |-> Mul(A, Pow(phi, k - 1))]

\* k = np.arange(1, K + 1); centres = A * (phi ** k): empty when K < 1
compute_phase_centres(A, phi, K) ==
    IF K < 1 THEN <<>> ELSE [k \in 1..K |-> Mul(A, Pow(phi, k))]

\* k = np.arange(0, K); widths = w0 * (g ** k): empty when K < 1
compute_window_half_widths(w0, g, K) ==
    IF K < 1 THEN <<>> ELSE [k \in 1..K |-> Mul(w0, Pow(g, k - 1))]

Shorter(a, b) == IF Len(a) <= Len(b) THEN Len(a) ELSE Len(b)

\* the loop shared by every builder:
\* for idx, (c, h) in enumerate(zip(centres, half_widths), start=1)
zip_windows(centres, half_widths) ==
    [idx \in 1..Shorter(centres, half_widths) |->
        LET c == centres[idx]
            h == half_widths[idx]
        IN  PhaseWindow(idx, c, c - h, c + h, h)]

build_phase_windows(A, phi, w0, g, K) ==
    zip_windows(compute_phase_centres(A, phi, K),
                compute_window_half_widths(w0, g, K))

build_windows_for_ratio(r, A, w0, g, K) ==
    zip_windows(compute_phase_centres(A, r, K),
                compute_window_half_widths(w0, g, K))

build_linear_windows ==
    zip_windows([k \in 1..NUM_PHASES |-> (10 + (k - 1) * 15) * SCALE],
                compute_window_half_widths(W0, G, NUM_PHASES))

\* (66.0 / 10.0) ** 0.25
R_EXP == 1603

build_exponential_windows ==
    zip_windows([k \in 1..NUM_PHASES |-> Mul(10 * SCALE, Pow(R_EXP, k - 1))],
                compute_window_half_widths(W0, G, NUM_PHASES))

\* ---------------------------------------------------------------------
\* coverage_for_ages
\* ---------------------------------------------------------------------

RECURSIVE ScanWindows(_, _, _)
\* for w in windows: if w.contains(age): ...; break
\* the position of the window the scan stops at, 0 when it runs to the end
ScanWindows(age, ws, j) ==
    IF j > Len(ws) THEN 0
    ELSE IF contains(ws[j], age) THEN j
    ELSE ScanWindows(age, ws, j + 1)

\* the scan leaving the loop after the first window, matching or not
first_window_only(age, ws) ==
    IF Len(ws) >= 1 /\ contains(ws[1], age) THEN 1 ELSE 0

first_match(age, ws) == ScanWindows(age, ws, 1)

RECURSIVE CountTrue(_, _)
CountTrue(mask, n) ==
    IF n = 0 THEN 0 ELSE CountTrue(mask, n - 1) + (IF mask[n] THEN 1 ELSE 0)

\* the count of covered ages, not divided by N
mask_sum(mask) == CountTrue(mask, Len(mask)) * SCALE

\* covered_mask.mean() if N > 0 else 0.0
mask_mean(mask) ==
    IF Len(mask) > 0 THEN (CountTrue(mask, Len(mask)) * SCALE) \div Len(mask) ELSE 0

coverage_for_ages(as, ws) ==
    LET hit(n) == first_match(as[n], ws)
        \* covered_mask[i] = True; assigned_windows[i] = w.index
        mask     == [n \in 1..Len(as) |-> hit(n) # 0]
        assigned == [n \in 1..Len(as) |->
                        IF hit(n) # 0 THEN ws[hit(n)].index ELSE None]
    IN  [coverage |-> mask_mean(mask),
         covered_mask |-> mask,
         assigned_windows |-> assigned]

NoResult == [coverage |-> 0, covered_mask |-> <<>>, assigned_windows |-> <<>>]

\* ---------------------------------------------------------------------
\* Bounds of the checked inputs
\* ---------------------------------------------------------------------

MaxAges == 2
MaxWindows == 2
MaxCoord == 2

Coords == 0..MaxCoord
HalfWidthChoices == {0, 1}

SeqsUpTo(S, n) == UNION {[1..m -> S] : m \in 0..n}

\* windows as a caller may hand them over: built from a centre and a
\* half-width, overlapping or not, index = position of construction
InputWindows ==
    {zip_windows(cs, hs) : <<cs, hs>> \in
        {p \in SeqsUpTo(Coords, MaxWindows) \X SeqsUpTo(HalfWidthChoices, MaxWindows) :
            Len(p[1]) = Len(p[2])}}

Perms(n) == {p \in [1..n -> 1..n] : \A a, b \in 1..n : p[a] = p[b] => a = b}

NoArgs == [op |-> "none"]
NoRng == [state |-> 0, pos |-> 0, streams |-> 0]
NoDraws == [values |-> <<>>, first |-> 0, last |-> 0]

\* ---------------------------------------------------------------------
\* Specification SpecCov: coverage_for_ages on arbitrary ages and windows,
\* then on the same windows in another order
\* ---------------------------------------------------------------------

InitCov ==
    /\ pc = "input"
    /\ ages \in SeqsUpTo(Coords, MaxAges)
    /\ windows \in InputWindows
    /\ args = NoArgs
    /\ result = NoResult
    /\ prev = NoResult
    /\ rng = NoRng
    /\ i = 0
    /\ coverages = <<>>
    /\ ratios = <<>>
    /\ draws = NoDraws
    /\ empirical = <<>>

\* coverage, covered_mask, assigned_windows = coverage_for_ages(ages, windows)
Score ==
    /\ pc = "input"
    /\ result' = coverage_for_ages(ages, windows)
    /\ pc' = "scored"
    /\ UNCHANGED <<args, ages, windows, prev, rng, i, coverages, ratios, draws, empirical>>

\* the caller hands the same windows over in another order
ScoreReordered ==
    /\ pc = "scored"
    /\ \E p \in Perms(Len(windows)) :
          /\ windows' = [k \in 1..Len(windows) |-> windows[p[k]]]
          /\ result' = coverage_for_ages(ages, windows')
    /\ prev' = result
    /\ pc' = "reordered"
    /\ UNCHANGED <<args, ages, rng, i, coverages, ratios, draws, empirical>>

NextCov == Score \/ ScoreReordered

SpecCov == InitCov /\ [][NextCov]_vars

\* the positions of the windows whose closed interval holds the age
Holding(age, ws) ==
    {k \in 1..Len(ws) : ws[k].lower <= age /\ age <= ws[k].upper}

Earliest(S) == CHOOSE k \in S : \A m \in S : k <= m

Scored == pc \in {"scored", "reordered"}

\* C1: assignment[i] is the index field of the first window, in the order
\* given, whose closed interval [lower, upper] holds ages[i], and none when
\* no window holds it; covered[i] is true exactly when assignment[i] is
\* not none.
C1_FirstMatchAssignment ==
    Scored =>
        /\ DOMAIN result.assigned_windows = DOMAIN ages
        /\ DOMAIN result.covered_mask = DOMAIN ages
        /\ \A n \in DOMAIN ages :
              LET hits == Holding(ages[n], windows)
              IN  /\ hits = {} => result.assigned_windows[n] = None
                  /\ hits # {} =>
                        result.assigned_windows[n] = windows[Earliest(hits)].index
                  /\ result.covered_mask[n] <=> result.assigned_windows[n] # None

\* an age on the upper endpoint of the first of two windows that hold it,
\* the windows given in the order 2, 1; and an age no window holds
C1_Witness ==
    /\ pc = "reordered"
    /\ Len(ages) = 2 /\ Len(windows) = 2
    /\ windows[1].index = 2
    /\ Holding(ages[1], windows) = {1, 2}
    /\ ages[1] = windows[1].upper
    /\ result.assigned_windows[1] = 2
    /\ Holding(ages[2], windows) = {}
    /\ result.assigned_windows[2] = None

\* C2: coverage = (number of covered ages) / (number of ages), within
\* [0, 1], covered and assignment as long as ages; no ages: coverage 0 and
\* empty sequences; no windows: every age unassigned and coverage 0.
C2_CoverageIsMeanOfCovered ==
    Scored =>
        LET n_cov == Cardinality({n \in DOMAIN ages : result.covered_mask[n]})
        IN  /\ Len(result.covered_mask) = Len(ages)
            /\ Len(result.assigned_windows) = Len(ages)
            /\ result.coverage >= 0 /\ result.coverage <= SCALE
            /\ Len(ages) > 0 =>
                  result.coverage = (n_cov * SCALE) \div Len(ages)
            /\ Len(ages) = 0 =>
                  /\ result.coverage = 0
                  /\ result.covered_mask = <<>>
                  /\ result.assigned_windows = <<>>
            /\ Len(windows) = 0 =>
                  /\ result.coverage = 0
                  /\ \A n \in DOMAIN ages : result.assigned_windows[n] = None

\* one age of two covered
C2_Witness ==
    /\ pc = "scored"
    /\ Len(ages) = 2
    /\ result.covered_mask[1] /\ ~result.covered_mask[2]
    /\ result.coverage = SCALE \div 2

\* C3: handing the same windows over in another order leaves covered and
\* coverage as they were; assignment changes only for an age that two or
\* more windows hold, and then names the earliest of them in the new order.
C3_OrderChangesOnlyAssignment ==
    pc = "reordered" =>
        /\ result.covered_mask = prev.covered_mask
        /\ result.coverage = prev.coverage
        /\ \A n \in DOMAIN ages :
              result.assigned_windows[n] # prev.assigned_windows[n] =>
                  LET hits == Holding(ages[n], windows)
                  IN  /\ Cardinality(hits) >= 2
                      /\ result.assigned_windows[n] = windows[Earliest(hits)].index

\* the order changed, one age changed its window and another kept its own
C3_Witness ==
    /\ pc = "reordered"
    /\ Len(windows) = 2 /\ windows[1].index = 2
    /\ Len(ages) = 2
    /\ result.assigned_windows[1] = 2 /\ prev.assigned_windows[1] = 1
    /\ result.assigned_windows[2] = prev.assigned_windows[2]
    /\ result.assigned_windows[2] # None

\* ---------------------------------------------------------------------
\* Specification SpecBuild: a caller builds a window sequence with one of
\* the four builders, arguments valid or not, and scores ages against it
\* ---------------------------------------------------------------------

AnchorChoices == {-ANCHOR_A, 0, ANCHOR_A}
RatioChoices == {1400, PHI, 1900}
W0Choices == {-W0, 0, W0}
GChoices == {-G, 0, G}
KChoices == -1..NUM_PHASES

ScenarioAges == <<9000, 24000, 40000, 62000, 88000>>
YoungAges == <<1000, 2000, 3000>>
AgeChoices == {<<>>, YoungAges, ScenarioAges}

BuilderArgs(op, A, r, w0, g, K) ==
    [op |-> op, A |-> A, r |-> r, w0 |-> w0, g |-> g, K |-> K]

DefaultPhaseArgs ==
    BuilderArgs("build_phase_windows", ANCHOR_A, PHI, W0, G, NUM_PHASES)

InitBuild ==
    /\ pc = "idle"
    /\ ages = <<>>
    /\ windows = <<>>
    /\ args = NoArgs
    /\ result = NoResult
    /\ prev = NoResult
    /\ rng = NoRng
    /\ i = 0
    /\ coverages = <<>>
    /\ ratios = <<>>
    /\ draws = NoDraws
    /\ empirical = <<>>

\* windows = build_phase_windows(A, phi, w0, g, K): no argument is checked,
\* no path raises
CallBuildPhaseWindows ==
    /\ pc = "idle"
    /\ \E A \in AnchorChoices, phi \in RatioChoices, w0 \in W0Choices,
          g \in GChoices, K \in KChoices :
          /\ args' = BuilderArgs("build_phase_windows", A, phi, w0, g, K)
          /\ windows' = build_phase_windows(A, phi, w0, g, K)
    /\ pc' = "built"
    /\ UNCHANGED <<ages, result, prev, rng, i, coverages, ratios, draws, empirical>>

\* windows = build_windows_for_ratio(r, A, w0, g, K)
CallBuildWindowsForRatio ==
    /\ pc = "idle"
    /\ \E r \in RatioChoices, A \in AnchorChoices, w0 \in W0Choices,
          g \in GChoices, K \in KChoices :
          /\ args' = BuilderArgs("build_windows_for_ratio", A, r, w0, g, K)
          /\ windows' = build_windows_for_ratio(r, A, w0, g, K)
    /\ pc' = "built"
    /\ UNCHANGED <<ages, result, prev, rng, i, coverages, ratios, draws, empirical>>

CallBuildLinearWindows ==
    /\ pc = "idle"
    /\ args' = [op |-> "build_linear_windows"]
    /\ windows' = build_linear_windows
    /\ pc' = "built"
    /\ UNCHANGED <<ages, result, prev, rng, i, coverages, ratios, draws, empirical>>

CallBuildExponentialWindows ==
    /\ pc = "idle"
    /\ args' = [op |-> "build_exponential_windows"]
    /\ windows' = build_exponential_windows
    /\ pc' = "built"
    /\ UNCHANGED <<ages, result, prev, rng, i, coverages, ratios, draws, empirical>>

\* coverage_for_ages(ages, windows) on the sequence just built
ScoreBuilt ==
    /\ pc = "built"
    /\ \E a \in AgeChoices :
          /\ ages' = a
          /\ result' = coverage_for_ages(a, windows)
    /\ pc' = "scored"
    /\ UNCHANGED <<args, windows, prev, rng, i, coverages, ratios, draws, empirical>>

NextBuild ==
    \/ CallBuildPhaseWindows
    \/ CallBuildWindowsForRatio
    \/ CallBuildLinearWindows
    \/ CallBuildExponentialWindows
    \/ ScoreBuilt

SpecBuild == InitBuild /\ [][NextBuild]_vars

\* In float64 the default windows are [6.708, 12.708], [11.208, 20.208],
\* [18.666, 32.166], [30.999, 51.249] and [51.353, 81.728]; the fixed-point
\* bounds differ from these by less than 0.05, and every scenario age is
\* more than 1.0 away from the nearest bound.
ScenarioScored ==
    pc = "scored" /\ args = DefaultPhaseArgs /\ ages = ScenarioAges

\* C4 as stated: the default windows and the ages [9, 24, 40, 62, 88] give
\* coverage 1.0 and assignment [1, 2, 3, 4, 5].
C4_AsStated ==
    ScenarioScored =>
        /\ result.coverage = SCALE
        /\ result.assigned_windows = <<1, 2, 3, 4, 5>>

\* C4 amended: the default windows and the ages [9, 24, 40, 62, 88] give
\* coverage 0.8 and assignment [1, 3, 4, 5, none]: 24 lies above window 2
\* and inside window 3, 40 inside window 4, 62 inside window 5, and 88
\* above window 5.
C4_ScenarioCoverage ==
    ScenarioScored =>
        /\ result.coverage = (4 * SCALE) \div 5
        /\ result.assigned_windows = <<1, 3, 4, 5, None>>
        /\ windows[2].upper < ages[2] /\ windows[5].upper < ages[5]

C4_Witness ==
    /\ ScenarioScored
    /\ result.covered_mask = <<TRUE, TRUE, TRUE, TRUE, FALSE>>

InvalidBuilderConfig ==
    /\ args.op \in {"build_phase_windows", "build_windows_for_ratio"}
    /\ (args.K < 1 \/ args.A <= 0 \/ args.w0 < 0 \/ args.g < 0)

\* C5 as stated, for the window builders: a call with K < 1, A <= 0 or a
\* negative w0 or g returns no window sequence and nothing is scored
\* against it.
C5_InvalidConfigIsRejected ==
    InvalidBuilderConfig => pc \notin {"built", "scored"}

\* C6 as stated: every window a builder returns has lower = centre -
\* half_width, upper = centre + half_width, half_width >= 0, lower <= upper,
\* and the windows of one sequence carry the indices 1..K in order.
C6_WindowInvariant ==
    pc \in {"built", "scored"} =>
        \A k \in DOMAIN windows :
            /\ windows[k].lower = windows[k].centre - windows[k].half_width
            /\ windows[k].upper = windows[k].centre + windows[k].half_width
            /\ windows[k].half_width >= 0
            /\ windows[k].lower <= windows[k].upper
            /\ windows[k].index = k

\* ---------------------------------------------------------------------
\* The pseudorandom stream.  numpy's Generator is library code; what the
\* baselines rely on is kept: default_rng(seed) starts a stream that the
\* seed alone determines, and every value drawn advances it by one
\* position.  A full-period congruential generator stands in for PCG64.
\* ---------------------------------------------------------------------

StreamStep(state) == (2053 * state + 1) % 8192

\* one value of rng.uniform(0.0, MAX_AGE) from a stream state
UniformValue(state) == (state * MAX_AGE) \div 8192

RECURSIVE StreamStates(_, _)
\* the n states the stream passes through from `state`
StreamStates(state, n) ==
    IF n <= 0 THEN <<>>
    ELSE <<StreamStep(state)>> \o StreamStates(StreamStep(state), n - 1)

\* a generator kept between calls: only the first call seeds it
shared_rng(seed) ==
    IF rng.streams > 0 THEN rng
    ELSE [state |-> seed % 8192, pos |-> 0, streams |-> 1]

\* rng = np.random.default_rng(seed)
default_rng(seed) == [state |-> seed % 8192, pos |-> 0, streams |-> 1]

\* a generator made anew from the seed for every batch
reseeded_uniform(g, size) ==
    LET fresh == default_rng(args.seed)
        states == StreamStates(fresh.state, size)
    IN  [rng |-> [state |-> IF size = 0 THEN fresh.state ELSE states[size],
                  pos |-> size,
                  streams |-> g.streams + 1],
         values |-> [n \in 1..size |-> UniformValue(states[n])],
         first |-> 1,
         last |-> size]

\* rng.uniform(0.0, MAX_AGE, size=size) for size >= 0: the values, the
\* stream advanced past them, and the stream positions they came from
uniform(g, size) ==
    LET states == StreamStates(g.state, size)
    IN  [rng |-> [g EXCEPT !.state = IF size = 0 THEN g.state ELSE states[size],
                           !.pos = g.pos + size],
         values |-> [n \in 1..size |-> UniformValue(states[n])],
         first |-> g.pos + 1,
         last |-> g.pos + size]

RECURSIVE Insert(_, _)
Insert(x, sorted) ==
    IF sorted = <<>> THEN <<x>>
    ELSE IF x <= Head(sorted) THEN <<x>> \o sorted
    ELSE <<Head(sorted)>> \o Insert(x, Tail(sorted))

RECURSIVE SortAscending(_)
SortAscending(xs) ==
    IF xs = <<>> THEN <<>> ELSE Insert(Head(xs), SortAscending(Tail(xs)))

\* the centres left in the order drawn
unsorted(xs) == xs

\* np.sort(...)
np_sort(xs) == SortAscending(xs)

\* np.zeros(n, dtype=float) for n >= 0
zeros(n) == [k \in 1..n |-> 0]

\* ---------------------------------------------------------------------
\* Specification SpecMC: a session of Monte Carlo baseline calls, one
\* after the other, each running its trials one at a time
\* ---------------------------------------------------------------------

MaxIter == 2
MaxNAges == 2

GLOBAL_SEED == 12345

SeedChoices == {GLOBAL_SEED, GLOBAL_SEED + 1}
IterChoices == -1..MaxIter
NAgesChoices == -1..MaxNAges

\* what load_empirical_ages() may find in the data file
TableChoices == {<<>>, <<9000, 24000>>, ScenarioAges}

NoCall == [args |-> NoArgs, outcome |-> "none", coverages |-> <<>>]

Finished == pc \in {"returned", "raised"}

FinishedCall == [args |-> args, outcome |-> pc, coverages |-> coverages]

InitMC ==
    /\ pc = "idle"
    /\ empirical \in TableChoices
    /\ ages = <<>>
    /\ windows = <<>>
    /\ args = NoArgs
    /\ result = NoResult
    /\ prev = NoCall
    /\ rng = NoRng
    /\ i = 0
    /\ coverages = <<>>
    /\ ratios = <<>>
    /\ draws = NoDraws

\* the caller keeps the result of an earlier call to compare with
Remember ==
    \/ pc = "idle" /\ prev' = prev
    \/ Finished /\ prev' = FinishedCall
    \/ Finished /\ prev.outcome # "none" /\ prev' = prev

\* random_age_baseline(n_iter, n_ages, seed) up to its loop:
\* rng = default_rng(seed); windows = build_phase_windows();
\* coverages = np.zeros(n_iter), which raises for a negative n_iter
CallRandomAgeBaseline ==
    /\ Remember
    /\ \E n_iter \in IterChoices, n_ages \in NAgesChoices, seed \in SeedChoices :
          /\ args' = [op |-> "random_age_baseline", n_iter |-> n_iter,
                      n_ages |-> n_ages, seed |-> seed]
          /\ rng' = default_rng(seed)
          /\ IF n_iter < 0
                THEN pc' = "raised" /\ coverages' = <<>>
                ELSE pc' = "age_loop" /\ coverages' = zeros(n_iter)
    /\ windows' = build_phase_windows(ANCHOR_A, PHI, W0, G, NUM_PHASES)
    /\ i' = 0
    /\ ages' = <<>>
    /\ result' = NoResult
    /\ draws' = NoDraws
    /\ UNCHANGED <<ratios, empirical>>

\* one pass of the loop of random_age_baseline:
\* random_ages = rng.uniform(0.0, MAX_AGE, size=n_ages), which raises for a
\* negative n_ages; C = coverage_for_ages(random_ages, windows);
\* coverages[i] = C
AgeTrial ==
    /\ pc = "age_loop"
    /\ i < args.n_iter
    /\ IF args.n_ages < 0
          THEN /\ pc' = "raised"
               /\ UNCHANGED <<rng, draws, ages, result, coverages, i>>
          ELSE \E d \in {uniform(rng, args.n_ages)} :
               \E c \in {coverage_for_ages(d.values, windows)} :
                   /\ rng' = d.rng
                   /\ draws' = [values |-> d.values, first |-> d.first,
                                last |-> d.last]
                   /\ ages' = d.values
                   /\ result' = c
                   /\ coverages' = [coverages EXCEPT ![i + 1] = c.coverage]
                   /\ i' = i + 1
                   /\ pc' = pc
    /\ UNCHANGED <<args, windows, prev, ratios, empirical>>

\* random_window_baseline(n_iter, seed) up to its loop:
\* rng = default_rng(seed); ages = load_empirical_ages()["age"];
\* coverages = np.zeros(n_iter), which raises for a negative n_iter
CallRandomWindowBaseline ==
    /\ Remember
    /\ \E n_iter \in IterChoices, seed \in SeedChoices :
          /\ args' = [op |-> "random_window_baseline", n_iter |-> n_iter,
                      seed |-> seed]
          /\ rng' = default_rng(seed)
          /\ IF n_iter < 0
                THEN pc' = "raised" /\ coverages' = <<>>
                ELSE pc' = "window_loop" /\ coverages' = zeros(n_iter)
    /\ ages' = empirical
    /\ windows' = <<>>
    /\ i' = 0
    /\ result' = NoResult
    /\ draws' = NoDraws
    /\ UNCHANGED <<ratios, empirical>>

\* one pass of the loop of random_window_baseline:
\* centres = np.sort(rng.uniform(0.0, MAX_AGE, size=NUM_PHASES)); the
\* windows from centres and half_widths; C = coverage_for_ages(ages,
\* windows); coverages[i] = C
WindowTrial ==
    /\ pc = "window_loop"
    /\ i < args.n_iter
    /\ \E d \in {uniform(rng, NUM_PHASES)} :
       \E centres \in {np_sort(d.values)} :
       \E half_widths \in {compute_window_half_widths(W0, G, NUM_PHASES)} :
       \E ws \in {zip_windows(centres, half_widths)} :
       \E c \in {coverage_for_ages(ages, ws)} :
           /\ rng' = d.rng
           /\ draws' = [values |-> d.values, first |-> d.first, last |-> d.last]
           /\ windows' = ws
           /\ result' = c
           /\ coverages' = [coverages EXCEPT ![i + 1] = c.coverage]
    /\ i' = i + 1
    /\ UNCHANGED <<pc, args, ages, prev, ratios, empirical>>

\* range(n_iter) is exhausted: return results.  "all_coverages" is
\* coverages; mean_coverage and std_coverage are computed from it and feed
\* nothing else (for n_iter <= 1 numpy gives nan with a warning, no error).
Return ==
    /\ pc \in {"age_loop", "window_loop"}
    /\ i >= args.n_iter
    /\ pc' = "returned"
    /\ UNCHANGED <<args, ages, windows, result, prev, rng, i, coverages, ratios,
                   draws, empirical>>

NextMC ==
    \/ CallRandomAgeBaseline
    \/ AgeTrial
    \/ CallRandomWindowBaseline
    \/ WindowTrial
    \/ Return

SpecMC == InitMC /\ [][NextMC]_vars

\* ---------------------------------------------------------------------
\* Specification FairSpecCall: one baseline call from its start to its
\* end.  The loop is synchronous and nothing suspends it, so a trial or the
\* return that can happen does happen.
\* ---------------------------------------------------------------------

FirstRandomAgeBaseline == pc = "idle" /\ CallRandomAgeBaseline

FirstRandomWindowBaseline == pc = "idle" /\ CallRandomWindowBaseline

NextCall ==
    \/ FirstRandomAgeBaseline
    \/ AgeTrial
    \/ FirstRandomWindowBaseline
    \/ WindowTrial
    \/ Return

FairSpecCall ==
    /\ InitMC /\ [][NextCall]_vars
    /\ WF_vars(AgeTrial) /\ WF_vars(WindowTrial) /\ WF_vars(Return)

\* C7: a baseline call with the same arguments as an earlier call of the
\* session (whatever was called in between) ends the same way and returns
\* the same coverage vector, element by element.
C7_SameSeedSameCoverages ==
    (Finished /\ prev.args = args) =>
        /\ prev.outcome = pc
        /\ prev.coverages = coverages

\* a repeated call whose vector is not constant
C7_Witness ==
    /\ pc = "returned"
    /\ prev.args = args
    /\ args.n_iter >= 2
    /\ coverages[1] # coverages[2]
    /\ prev.coverages = coverages

InWindowBaseline ==
    /\ args.op = "random_window_baseline"
    /\ pc \in {"window_loop", "returned"}
    /\ i >= 1

Occurrences(xs, v) == Cardinality({k \in DOMAIN xs : xs[k] = v})

\* C8: in every trial of random_window_baseline the windows carry the drawn
\* centres in ascending order, window k holding the k-th smallest drawn
\* centre and the k-th half-width.
C8_CentresSortedBeforePairing ==
    InWindowBaseline =>
        /\ Len(windows) = NUM_PHASES
        /\ Len(draws.values) = NUM_PHASES
        /\ \A k \in 1..NUM_PHASES :
              /\ windows[k].index = k
              /\ windows[k].half_width = Mul(W0, Pow(G, k - 1))
              /\ Occurrences([m \in 1..NUM_PHASES |-> windows[m].centre],
                             windows[k].centre)
                    = Occurrences(draws.values, windows[k].centre)
              /\ \A m \in 1..NUM_PHASES : windows[1].centre <= draws.values[m]
        /\ \A k \in 1..(NUM_PHASES - 1) : windows[k].centre <= windows[k + 1].centre

\* a trial whose centres were not drawn in ascending order
C8_Witness ==
    /\ InWindowBaseline
    /\ \E k \in 1..(NUM_PHASES - 1) : draws.values[k] > draws.values[k + 1]
    /\ windows[1].centre # draws.values[1]

Batch == IF args.op = "random_age_baseline" THEN args.n_ages ELSE NUM_PHASES

BaselineCall == args.op \in {"random_age_baseline", "random_window_baseline"}

InLoop == pc \in {"age_loop", "window_loop"}

RunsToCompletion ==
    /\ BaselineCall
    /\ args.n_iter >= 1
    /\ args.op = "random_age_baseline" => args.n_ages >= 0

C10_TrialsInStreamOrder ==
    RunsToCompletion =>
        /\ rng.streams = 1
        /\ pc # "raised"
        /\ i \in 0..args.n_iter
        /\ Len(coverages) = args.n_iter
        /\ rng.pos = i * Batch
        /\ i >= 1 =>
              /\ Len(draws.values) = Batch
              /\ draws.first = (i - 1) * Batch + 1
              /\ draws.last = i * Batch
        /\ pc = "returned" => i = args.n_iter

MaxPoints == 4

PointChoices == -1..MaxPoints

\* np.linspace(start, stop, num) for num >= 0: num evenly spaced values
\* from start, the last one set to stop when num > 1
linspace(start, stop, num) ==
    [k \in 1..num |->
        IF num > 1 /\ k = num THEN stop
        ELSE IF num = 1 THEN start
        ELSE start + ((k - 1) * (stop - start)) \div (num - 1)]

RECURSIVE ArgMaxFrom(_, _, _)
\* the first position in k..Len(xs) holding more than xs[best], else best
ArgMaxFrom(xs, k, best) ==
    IF k > Len(xs) THEN best
    ELSE IF xs[k] > xs[best] THEN ArgMaxFrom(xs, k + 1, k)
    ELSE ArgMaxFrom(xs, k + 1, best)

RECURSIVE LastArgMaxFrom(_, _, _)
LastArgMaxFrom(xs, k, best) ==
    IF k > Len(xs) THEN best
    ELSE IF xs[k] >= xs[best] THEN LastArgMaxFrom(xs, k + 1, k)
    ELSE LastArgMaxFrom(xs, k + 1, best)

\* the last position of the maximum
last_argmax(xs) == LastArgMaxFrom(xs, 2, 1)

\* np.argmax(xs) for a non-empty xs: the first position of the maximum
argmax(xs) == ArgMaxFrom(xs, 2, 1)

NoBest == [best_idx |-> 0, best_r |-> 0, best_coverage |-> 0]

InitScan ==
    /\ pc = "idle"
    /\ empirical \in TableChoices
    /\ ages = <<>>
    /\ windows = <<>>
    /\ args = NoArgs
    /\ result = NoResult
    /\ prev = NoBest
    /\ rng = NoRng
    /\ i = 0
    /\ coverages = <<>>
    /\ ratios = <<>>
    /\ draws = NoDraws

\* scan_ratios(r_min, r_max, n_points) up to its loop:
\* ages = load_empirical_ages()["age"]; ratios = np.linspace(r_min, r_max,
\* n_points), which raises for a negative n_points;
\* coverages = np.zeros_like(ratios)
CallScanRatios ==
    /\ pc = "idle"
    /\ \E r_min \in RatioChoices, r_max \in RatioChoices, n_points \in PointChoices :
          /\ args' = [op |-> "scan_ratios", r_min |-> r_min, r_max |-> r_max,
                      n_points |-> n_points]
          /\ IF n_points < 0
                THEN pc' = "raised" /\ ratios' = <<>> /\ coverages' = <<>>
                ELSE /\ pc' = "scan_loop"
                     /\ ratios' = linspace(r_min, r_max, n_points)
                     /\ coverages' = zeros(n_points)
    /\ ages' = empirical
    /\ i' = 0
    /\ UNCHANGED <<windows, result, prev, rng, draws, empirical>>

\* one pass of the loop of scan_ratios: windows = build_windows_for_ratio(r);
\* C = coverage_for_ages(ages, windows); coverages[i] = C
ScanStep ==
    /\ pc = "scan_loop"
    /\ i < Len(ratios)
    /\ LET ws == build_windows_for_ratio(ratios[i + 1], ANCHOR_A, W0, G, NUM_PHASES)
           c == coverage_for_ages(ages, ws)
       IN  /\ windows' = ws
           /\ result' = c
           /\ coverages' = [coverages EXCEPT ![i + 1] = c.coverage]
    /\ i' = i + 1
    /\ UNCHANGED <<pc, args, ages, prev, rng, ratios, draws, empirical>>

\* after the loop: best_idx = int(np.argmax(coverages)), which raises for
\* an empty array; best_r = ratios[best_idx];
\* best_coverage = coverages[best_idx]
ScanFinish ==
    /\ pc = "scan_loop"
    /\ i >= Len(ratios)
    /\ IF Len(coverages) = 0
          THEN pc' = "raised" /\ prev' = prev
          ELSE /\ pc' = "returned"
               /\ prev' = [best_idx |-> argmax(coverages),
                           best_r |-> ratios[argmax(coverages)],
                           best_coverage |-> coverages[argmax(coverages)]]
    /\ UNCHANGED <<args, ages, windows, result, rng, i, coverages, ratios, draws,
                   empirical>>

NextScan == CallScanRatios \/ ScanStep \/ ScanFinish

SpecScan == InitScan /\ [][NextScan]_vars

ScanCoverage(r) ==
    coverage_for_ages(empirical,
        build_windows_for_ratio(r, ANCHOR_A, W0, G, NUM_PHASES)).coverage

Ascending(xs) == \A k \in 1..(Len(xs) - 1) : xs[k] <= xs[k + 1]

BestPositions == {k \in DOMAIN coverages : \A m \in DOMAIN coverages : coverages[m] <= coverages[k]}

ScanProper == args.op = "scan_ratios" /\ args.n_points >= 1 /\ args.r_min <= args.r_max

\* C9 as stated (read for n_points >= 1 and r_min <= r_max): the scan
\* returns n_points ascending ratios, the first r_min and the last r_max.
C9_AsStated ==
    (ScanProper /\ Finished) =>
        /\ pc = "returned"
        /\ Len(ratios) = args.n_points
        /\ Ascending(ratios)
        /\ ratios[1] = args.r_min
        /\ ratios[Len(ratios)] = args.r_max

\* C9 amended: for n_points >= 1 and r_min <= r_max the scan returns
\* n_points ascending ratios, the first r_min and, when n_points >= 2, the
\* last r_max (n_points = 1 scans r_min alone); coverages[i] is the
\* coverage of the fixed ages against the windows built for ratios[i];
\* best_coverage is the maximum of coverages and best_r the smallest
\* scanned ratio reaching it, the first in scan order.
C9_ScanResult ==
    (ScanProper /\ Finished) =>
        /\ pc = "returned"
        /\ Len(ratios) = args.n_points
        /\ Len(coverages) = args.n_points
        /\ Ascending(ratios)
        /\ ratios[1] = args.r_min
        /\ args.n_points >= 2 => ratios[Len(ratios)] = args.r_max
        /\ args.n_points = 1 => ratios = <<args.r_min>>
        /\ \A k \in DOMAIN ratios : coverages[k] = ScanCoverage(ratios[k])
        /\ \A k \in DOMAIN coverages : coverages[k] <= prev.best_coverage
        /\ prev.best_idx \in BestPositions
        /\ \A k \in BestPositions : prev.best_idx <= k /\ prev.best_r <= ratios[k]
        /\ prev.best_r = ratios[prev.best_idx]
        /\ prev.best_coverage = coverages[prev.best_idx]

\* a scan whose maximum is reached at two ratios, neither of them the first
C9_Witness ==
    /\ ScanProper /\ pc = "returned"
    /\ args.r_min < args.r_max
    /\ Cardinality(BestPositions) >= 2
    /\ 1 \notin BestPositions
    /\ prev.best_r < ratios[Len(ratios)]

====
